---- MODULE Spec2Model ----
(***************************************************************************)
(* FhirQueryClient (src/fhir_query/client.py): request construction,       *)
(* lazy login and page following of get()/_get().                          *)
(*                                                                         *)
(* Text values (query strings, JSON texts) are sequences of tokens; an     *)
(* optional Python value is a record [some, v] (some = FALSE is None).     *)
(* A URL is a record [origin, path, query]; origin "" is a relative URL.   *)
(***************************************************************************)
EXTENDS Integers, Sequences, FiniteSets, TLC

VARIABLES
    cfg,                  \* the constructor's arguments
    pc,                   \* position of the single synchronous caller
    pending_login_auth,   \* self._pending_login_auth
    token,                \* self.token as set by a login ([some, v])
    args,                 \* the arguments of the get() call in progress
    calls,                \* get() calls started so far
    logins,               \* login requests issued so far (all calls)
    logins_ok,            \* login calls that completed without a fault
    requests,             \* query requests issued by the current call, in order
    responses,            \* responses received by the current call
    last_status,          \* HTTP status of the latest of them (0: none yet)
    fetched,              \* pages parsed from the responses of the current call, in order
    fqc_bundle,           \* the FhirQueryBundle under construction
    remaining_pages,      \* the loop's page budget
    fault,                \* the exception raised to the caller ([kind, status])
    result                \* the value returned to the caller ([some, bundle])

vars == <<cfg, pc, pending_login_auth, token, args, calls, logins, logins_ok,
          requests, responses, last_status, fetched, fqc_bundle, remaining_pages, fault, result>>

\* ------------------------------------------------------------------ bounds
MaxPages == 3      \* largest value of the pages argument
MaxCalls == 2      \* get() calls per client
PageSize == 2      \* entries of a non-empty page

\* ------------------------------------------------------------------ values
None == [some |-> FALSE, v |-> <<>>]
Some(x) == [some |-> TRUE, v |-> x]
\* Python truthiness of an optional string, mapping or sequence
Truthy(o) == o.some /\ o.v # <<>>

NoneInt == [some |-> FALSE, v |-> 0]
\* Python truthiness of an optional int
TruthyInt(o) == o.some /\ o.v # 0

BaseUrl == "https://h/fhir/"
OtherUrl == "https://other/fhir/"
NoUrl == [origin |-> "", path |-> <<>>, query |-> <<>>]
NoneUrl == [some |-> FALSE, v |-> NoUrl]

ResourceTypes == {"Patient"}

\* the params mappings a caller passes: None, {} and {"a": "1"}
ParamsSet == {None, Some(<<>>), Some(<< <<"a", "1">> >>)}
\* the raw search strings a caller passes: None and "a=1"
SearchStringSet == {None, Some(<<"a", "=", "1">>)}
\* full_url: the default False, the boolean True, or a URL string
FullUrlSet ==
    { [kind |-> "False", url |-> NoUrl],
      [kind |-> "True", url |-> NoUrl],
      [kind |-> "url", url |-> [origin |-> OtherUrl, path |-> <<"Patient">>,
                                 query |-> <<"x", "=", "1">>]] }
PagesSet == {NoneInt} \cup { [some |-> TRUE, v |-> n] : n \in -1..MaxPages }

\* the calls a caller makes: without full_url every value of pages, with full_url
\* pages unset or MaxPages
ArgsSet ==
    [ resource_type : ResourceTypes, params : ParamsSet,
      full_url : {[kind |-> "False", url |-> NoUrl]},
      search_string : SearchStringSet, use_post : BOOLEAN, pages : PagesSet ]
    \cup [ resource_type : ResourceTypes, params : ParamsSet,
           full_url : FullUrlSet \ {[kind |-> "False", url |-> NoUrl]},
           search_string : SearchStringSet, use_post : BOOLEAN,
           pages : {NoneInt, [some |-> TRUE, v |-> MaxPages]} ]

NoArgs ==
    [ resource_type |-> "Patient", params |-> None,
      full_url |-> [kind |-> "False", url |-> NoUrl],
      search_string |-> None, use_post |-> FALSE, pages |-> NoneInt ]

\* the constructor arguments that matter to get(): login-exchange with any of the
\* login URL, username and password given or missing; the other methods as used
CfgSet ==
    [ auth_method : {"login"}, use_post : BOOLEAN,
      login_url : BOOLEAN, username : BOOLEAN, password : BOOLEAN ]
    \cup [ auth_method : {"none", "token"}, use_post : BOOLEAN,
           login_url : {FALSE}, username : {FALSE}, password : {FALSE} ]
    \cup [ auth_method : {"basic"}, use_post : BOOLEAN,
           login_url : {FALSE}, username : {TRUE}, password : {TRUE} ]

\* ------------------------------------------------------------------ server
\* next links a page may carry: none, a relative one, an absolute one
RelLink == [origin |-> "", path |-> <<"Patient">>, query |-> <<"page", "=", "2">>]
AbsLink == [origin |-> OtherUrl, path |-> <<"Patient">>, query |-> <<"page", "=", "3">>]
LinkSet == {NoneUrl, [some |-> TRUE, v |-> RelLink], [some |-> TRUE, v |-> AbsLink]}

\* the entries of the k-th page served within one call, each named <<k, i>>: the
\* page holds k % (PageSize + 1) of them (1, 2, ..., PageSize, 0, 1, ...)
EntriesOf(k) == {[i \in 1..(k % (PageSize + 1)) |-> <<k, i>>]}
PagesOf(k) == [entry : EntriesOf(k), link : LinkSet]

\* 200 OK, 300 Multiple Choices (no redirect the session follows), 404 Not Found,
\* 500 Internal Server Error
StatusSet == {200, 300, 404, 500}
\* a response: its status, whether its body parses as JSON, and the parsed page
ResponsesOf(k) ==
    [status : {200, 300}, is_json : {TRUE}, page : PagesOf(k)]
    \cup [status : StatusSet, is_json : {FALSE},
          page : {[entry |-> <<>>, link |-> NoneUrl]}]

NoFault == [kind |-> "", status |-> 0]
NoBundle == [entry |-> <<>>, link |-> NoneUrl]
NoResult == [some |-> FALSE, bundle |-> NoBundle]

Init ==
    /\ cfg \in CfgSet
    /\ pc = "new"
    /\ pending_login_auth = FALSE
    /\ token = None
    /\ args = NoArgs
    /\ calls = 0
    /\ logins = 0
    /\ logins_ok = 0
    /\ requests = <<>>
    /\ responses = 0
    /\ last_status = 0
    /\ fetched = <<>>
    /\ fqc_bundle = NoBundle
    /\ remaining_pages = 0
    /\ fault = NoFault
    /\ result = NoResult

\* ------------------------------------------------------------ conversions
\* urllib.parse.urlencode of a mapping: k=v pairs joined by &
RECURSIVE urlencode(_)
urlencode(kv) ==
    IF kv = <<>> THEN <<>>
    ELSE LET h == <<kv[1][1], "=", kv[1][2]>>
         IN  IF Len(kv) = 1 THEN h ELSE h \o <<"&">> \o urlencode(Tail(kv))

\* json.dumps of None or of a str: null, or the quoted text with its quotes escaped
json_dumps(o) ==
    IF ~o.some THEN <<"null">>
    ELSE <<"\"">> \o [i \in DOMAIN o.v |-> IF o.v[i] = "\"" THEN "\\\"" ELSE o.v[i]]
                  \o <<"\"">>

\* json.loads of a JSON text holding null or a string (the text json_dumps writes)
json_loads(t) ==
    IF t = <<"null">> THEN None
    ELSE Some([i \in 1..(Len(t) - 2) |-> IF t[i + 1] = "\\\"" THEN "\"" ELSE t[i + 1]])

\* urljoin(self.base_url, path) for the base URL of the client
urljoin(base, path) == [origin |-> base, path |-> path, query |-> <<>>]

\* fhir_query.utils.is_absolute_url: the link names a scheme and host
is_absolute_url(link) == link.origin # ""

\* fhir_query.utils.merge_url_with_path: the relative link placed under the base
merge_url_with_path(base, link) == [link EXCEPT !.origin = base]

\* FhirQueryBundle(response): the page's entries and its next link
FhirQueryBundle(page) == [entry |-> page.entry, link |-> page.link]

\* FhirQueryBundle.add_bundle: entries appended, next link replaced
add_bundle(b, page) == [entry |-> b.entry \o page.entry, link |-> page.link]

\* FhirQueryBundle.next_link
next_link(b) == b.link

\* raise_for_status raising for server errors only
raise_for_status_ServerOnly(status) == status >= 500

\* requests.Response.raise_for_status: raises for 4xx and 5xx
raise_for_status(status) == status >= 400

\* the body session.request(json=data) puts on the wire
RequestBody(data) == IF data.some THEN Some(json_dumps(data)) ELSE None

\* make_request: the fault it raises on a response (NoFault: it returns the JSON)
make_request(resp) ==
    IF raise_for_status(resp.status)
    THEN [kind |-> "HTTPError", status |-> resp.status]
    ELSE IF ~resp.is_json THEN [kind |-> "JSONDecodeError", status |-> 0]
    ELSE NoFault

\* ---------------------------------------------------------------- helpers
Raise(f) ==
    /\ pc' = "raised"
    /\ fault' = f
    /\ result' = NoResult

Return(b) ==
    /\ pc' = "returned"
    /\ result' = [some |-> TRUE, bundle |-> b]
    /\ fault' = NoFault

\* the constructor not checking the login URL
FhirClientBase_init_NoLoginUrlCheck(c) ==
    c.auth_method = "login" => (c.username /\ c.password)

\* FhirClientBase.__init__: the configuration the constructor accepts
FhirClientBase_init(c) ==
    c.auth_method = "login" => (c.username /\ c.password /\ c.login_url)

\* ensure_auth's condition: a login is pending and a login URL is configured
NeedsLogin == pending_login_auth /\ cfg.login_url

\* _setup_login_auth: the credentials check that precedes the login request
CredentialsMissing == ~cfg.username \/ ~cfg.password

\* ensure_auth leaving the flag set
PendingAfterLogin_Kept == TRUE

\* ensure_auth: the flag once _setup_login_auth has returned
PendingAfterLogin == FALSE

\* _get: how many of params, search_string and full_url the call provides
provided_options(a) ==
    (IF a.params.some THEN 1 ELSE 0)
    + (IF a.search_string.some THEN 1 ELSE 0)
    + (IF a.full_url.kind = "True" THEN 1 ELSE 0)

\* _get: the truthiness of full_url that selects the single-GET branch
FullUrlGiven(a) == a.full_url.kind # "False"

\* the full_url branch honouring use_post
full_url_request_Post(a) ==
    [ method |-> IF a.use_post \/ cfg.use_post THEN "POST" ELSE "GET",
      url |-> a.full_url.url, body |-> None ]

\* _get: the request of the full_url branch
full_url_request(a) == [method |-> "GET", url |-> a.full_url.url, body |-> None]

\* _get: search_params from params (URL-encoded) or from the raw search string
search_params(a) ==
    IF Truthy(a.params) THEN Some(urlencode(a.params.v))
    ELSE IF Truthy(a.search_string) THEN a.search_string
    ELSE None

\* _get: POST mode is chosen by the call's flag or by the client's default
UsePost(a) == a.use_post \/ cfg.use_post

\* _get: the first request of a call without full_url
first_request(a) ==
    IF UsePost(a)
    THEN [ method |-> "POST",
           url |-> urljoin(BaseUrl, <<a.resource_type, "_search">>),
           body |-> RequestBody(Some(json_dumps(search_params(a)))) ]
    ELSE [ method |-> "GET",
           url |-> IF Truthy(search_params(a))
                   THEN [urljoin(BaseUrl, <<a.resource_type>>)
                           EXCEPT !.query = search_params(a).v]
                   ELSE urljoin(BaseUrl, <<a.resource_type>>),
           body |-> RequestBody(None) ]

\* the budget not counting the first page
InitialRemaining_OffByOne(a) ==
    IF TruthyInt(a.pages) /\ a.pages.v > 1 THEN a.pages.v ELSE 0

\* _get: the page budget on entering the loop (the first page is already fetched)
InitialRemaining(a) ==
    IF TruthyInt(a.pages) /\ a.pages.v > 1 THEN a.pages.v - 1 ELSE 0

\* the loop without its break on a missing next link
LoopContinues_NoBreak(b, r) == r > 0

\* _get: the loop goes on while budget remains and the bundle has a next link
LoopContinues(b, r) == r > 0 /\ next_link(b).some

\* every next link merged with the base URL, absolute or not
NextUrl_AlwaysMerged(b) == merge_url_with_path(BaseUrl, next_link(b).v)

\* _get: the URL of a follow-up request
NextUrl(b) ==
    IF is_absolute_url(next_link(b).v) THEN next_link(b).v
    ELSE merge_url_with_path(BaseUrl, next_link(b).v)

\* the loop without its decrement
DecrementPages_Kept(r) == r

\* _get: the budget after one iteration
DecrementPages(r) == r - 1

\* _get: one evaluation of the while loop on bundle b with budget r
PageLoop(b, r) ==
    IF LoopContinues(b, r)
    THEN /\ requests' = Append(requests, [method |-> "GET", url |-> NextUrl(b),
                                           body |-> None])
         /\ pc' = "wait_next"
         /\ UNCHANGED <<fault, result>>
    ELSE /\ Return(b)
         /\ UNCHANGED requests

\* ---------------------------------------------------------------- actions
\* __init__
FhirQueryClient_init ==
    /\ pc = "new"
    /\ IF FhirClientBase_init(cfg)
       THEN /\ pc' = "idle"
            /\ pending_login_auth' = (cfg.auth_method = "login")
       ELSE /\ pc' = "config_fault"
            /\ UNCHANGED pending_login_auth
    /\ UNCHANGED <<cfg, token, args, calls, logins, logins_ok, requests, responses,
                   last_status, fetched, fqc_bundle, remaining_pages, fault, result>>

\* get(): the caller starts a call
get ==
    /\ pc \in {"idle", "returned", "raised"}
    /\ calls < MaxCalls
    /\ \E a \in ArgsSet : args' = a
    /\ calls' = calls + 1
    /\ pc' = "ensure_auth"
    /\ requests' = <<>>
    /\ responses' = 0
    /\ last_status' = 0
    /\ fetched' = <<>>
    /\ fqc_bundle' = NoBundle
    /\ remaining_pages' = 0
    /\ fault' = NoFault
    /\ result' = NoResult
    /\ UNCHANGED <<cfg, pending_login_auth, token, logins, logins_ok>>

\* ensure_auth up to the login request of _setup_login_auth
ensure_auth ==
    /\ pc = "ensure_auth"
    /\ IF NeedsLogin
       THEN IF CredentialsMissing
            THEN /\ Raise([kind |-> "ValueError", status |-> 0])
                 /\ UNCHANGED logins
            ELSE /\ logins' = logins + 1
                 /\ pc' = "login_wait"
                 /\ UNCHANGED <<fault, result>>
       ELSE /\ pc' = "_get"
            /\ UNCHANGED <<logins, fault, result>>
    /\ UNCHANGED <<cfg, pending_login_auth, token, args, calls, logins_ok, requests,
                   responses, last_status, fetched, fqc_bundle, remaining_pages>>

\* _setup_login_auth from the login response on, and the rest of ensure_auth
login_response ==
    /\ pc = "login_wait"
    /\ \E status \in StatusSet :
         IF raise_for_status(status)
         THEN /\ Raise([kind |-> "HTTPError", status |-> status])
              /\ UNCHANGED <<token, logins_ok, pending_login_auth>>
         ELSE /\ token' = Some(<<"tok">>)
              /\ logins_ok' = logins_ok + 1
              /\ pending_login_auth' = PendingAfterLogin
              /\ pc' = "_get"
              /\ UNCHANGED <<fault, result>>
    /\ UNCHANGED <<cfg, args, calls, logins, requests, responses, last_status,
                   fetched, fqc_bundle, remaining_pages>>

\* _get up to its first request
get_internal ==
    /\ pc = "_get"
    /\ IF provided_options(args) > 1
       THEN /\ Raise([kind |-> "AssertionError", status |-> 0])
            /\ UNCHANGED requests
       ELSE IF FullUrlGiven(args)
       THEN IF args.full_url.kind = "True"
            THEN \* the URL True names no scheme: the session rejects it unsent
                 /\ Raise([kind |-> "MissingSchema", status |-> 0])
                 /\ UNCHANGED requests
            ELSE /\ requests' = <<full_url_request(args)>>
                 /\ pc' = "wait_full"
                 /\ UNCHANGED <<fault, result>>
       ELSE /\ requests' = <<first_request(args)>>
            /\ pc' = "wait_first"
            /\ UNCHANGED <<fault, result>>
    /\ UNCHANGED <<cfg, pending_login_auth, token, args, calls, logins, logins_ok,
                   responses, last_status, fetched, fqc_bundle, remaining_pages>>

\* the full_url branch from its response on
full_url_response ==
    /\ pc = "wait_full"
    /\ \E resp \in ResponsesOf(1) :
         /\ responses' = responses + 1
         /\ last_status' = resp.status
         /\ IF make_request(resp) # NoFault
            THEN /\ Raise(make_request(resp))
                 /\ UNCHANGED <<fetched, fqc_bundle>>
            ELSE /\ fetched' = <<resp.page>>
                 /\ fqc_bundle' = FhirQueryBundle(resp.page)
                 /\ Return(FhirQueryBundle(resp.page))
    /\ UNCHANGED <<cfg, pending_login_auth, token, args, calls, logins, logins_ok,
                   requests, remaining_pages>>

\* _get from the first response on: the bundle, then the loop's first evaluation
first_response ==
    /\ pc = "wait_first"
    /\ \E resp \in ResponsesOf(1) :
         /\ responses' = responses + 1
         /\ last_status' = resp.status
         /\ IF make_request(resp) # NoFault
            THEN /\ Raise(make_request(resp))
                 /\ UNCHANGED <<fetched, fqc_bundle, remaining_pages, requests>>
            ELSE /\ fetched' = <<resp.page>>
                 /\ fqc_bundle' = FhirQueryBundle(resp.page)
                 /\ remaining_pages' = InitialRemaining(args)
                 /\ PageLoop(FhirQueryBundle(resp.page), InitialRemaining(args))
    /\ UNCHANGED <<cfg, pending_login_auth, token, args, calls, logins, logins_ok>>

\* _get from a follow-up response on: merge, decrement, the loop's next evaluation
next_response ==
    /\ pc = "wait_next"
    /\ \E resp \in ResponsesOf(responses + 1) :
         /\ responses' = responses + 1
         /\ last_status' = resp.status
         /\ IF make_request(resp) # NoFault
            THEN /\ Raise(make_request(resp))
                 /\ UNCHANGED <<fetched, fqc_bundle, remaining_pages, requests>>
            ELSE /\ fetched' = Append(fetched, resp.page)
                 /\ fqc_bundle' = add_bundle(fqc_bundle, resp.page)
                 /\ remaining_pages' = DecrementPages(remaining_pages)
                 /\ PageLoop(add_bundle(fqc_bundle, resp.page),
                             DecrementPages(remaining_pages))
    /\ UNCHANGED <<cfg, pending_login_auth, token, args, calls, logins, logins_ok>>

Next ==
    \/ FhirQueryClient_init
    \/ get
    \/ ensure_auth
    \/ login_response
    \/ get_internal
    \/ full_url_response
    \/ first_response
    \/ next_response

Spec == Init /\ [][Next]_vars

\* every started step of a call completes: the code is synchronous and every
\* request is answered (by a response or by a failure)
FairSpec ==
    Spec /\ WF_vars(ensure_auth) /\ WF_vars(login_response) /\ WF_vars(get_internal)
         /\ WF_vars(full_url_response) /\ WF_vars(first_response)
         /\ WF_vars(next_response)

\* ----------------------------------------------------------------- claims
Min(a, b) == IF a < b THEN a ELSE b
Max(a, b) == IF a > b THEN a ELSE b

\* the entries of a sequence of pages, page after page
RECURSIVE Flatten(_)
Flatten(ps) == IF ps = <<>> THEN <<>> ELSE Head(ps).entry \o Flatten(Tail(ps))

\* how many pages, from the first on, carry a next link without interruption
RECURSIVE LinkedPrefix(_)
LinkedPrefix(ps) ==
    IF ps = <<>> \/ ~Head(ps).link.some THEN 0 ELSE 1 + LinkedPrefix(Tail(ps))

\* the options of {params, search_string, full_url} a call provides
OptionsGiven(a) ==
    (IF a.params.some THEN 1 ELSE 0) + (IF a.search_string.some THEN 1 ELSE 0)
    + (IF a.full_url.kind # "False" THEN 1 ELSE 0)

InCall == pc \in {"ensure_auth", "login_wait", "_get", "wait_full", "wait_first", "wait_next"}

\* the value of pages, 0 when unset
PagesArg == IF args.pages.some THEN args.pages.v ELSE 0

\* C1: a call that provides two or three of params, search_string and full_url is
\* rejected before any network call: no login request and no query request is
\* issued by it, and it never returns a bundle.
C1_RejectedBeforeNetwork ==
    (calls > 0 /\ OptionsGiven(args) > 1) =>
        /\ requests = <<>>
        /\ pc # "login_wait"
        /\ pc # "returned"

\* C2: a returned call without full_url and with pages = N > 1 has issued exactly
\* min(N - 1, pages in a row that carry a next link) follow-up GETs, each after the
\* previous response, and returns the entries of the fetched pages in fetch order.
C2_FollowsPagesInOrder ==
    (~FullUrlGiven(args) /\ PagesArg > 1) =>
        /\ Len(requests) <= responses + 1
        /\ \A k \in 2..Len(requests) : requests[k].method = "GET"
        /\ pc = "returned" =>
             /\ Len(requests) - 1 = Min(PagesArg - 1, LinkedPrefix(fetched))
             /\ Len(fetched) = Len(requests)
             /\ result.some
             /\ result.bundle.entry = Flatten(fetched)

C2_Witness ==
    /\ pc = "returned"
    /\ ~FullUrlGiven(args)
    /\ PagesArg = MaxPages
    /\ Len(requests) = MaxPages
    /\ Len(result.bundle.entry) > PageSize

\* C3: with pages unset, 1, 0 or negative, or with a first page that carries no next
\* link, the call issues no follow-up request: one query request in all, and the
\* returned bundle holds the first page's entries.
C3_NoFollowUp ==
    (PagesArg <= 1 \/ (fetched # <<>> /\ ~fetched[1].link.some)) =>
        /\ Len(requests) <= 1
        /\ pc = "returned" =>
             /\ Len(requests) = 1
             /\ result.some
             /\ result.bundle.entry = fetched[1].entry

C3_Witness ==
    /\ pc = "returned"
    /\ PagesArg = MaxPages
    /\ ~fetched[1].link.some
    /\ result.bundle.entry # <<>>
    /\ Len(requests) = 1

\* the call has aborted on its latest response with the HTTP fault of that status
AbortedOnStatus ==
    /\ pc = "raised"
    /\ fault = [kind |-> "HTTPError", status |-> last_status]
    /\ ~result.some
    /\ Len(requests) = responses

C5_PostCarriesSameParams ==
    (~FullUrlGiven(args) /\ requests # <<>>) =>
        LET r == requests[1]
            base == [origin |-> BaseUrl, path |-> <<args.resource_type>>,
                     query |-> <<>>]
        IN  /\ (r.method = "POST") <=> (args.use_post \/ cfg.use_post)
            /\ r.method \in {"GET", "POST"}
            /\ r.method = "GET" =>
                 r.url = [base EXCEPT !.query =
                            IF search_params(args).some THEN search_params(args).v
                            ELSE <<>>]
            /\ r.method = "POST" =>
                 /\ r.url = [base EXCEPT !.path = <<args.resource_type, "_search">>]
                 /\ r.body.some
                 /\ json_loads(r.body.v) = search_params(args)

\* C6: a call whose full_url is a URL issues one request only, a GET to exactly that
\* URL, and returns its response as the bundle: never a POST, never a follow-up.
C6_FullUrlSingleGet ==
    (args.full_url.kind = "url") =>
        /\ Len(requests) <= 1
        /\ \A k \in DOMAIN requests :
             requests[k] = [method |-> "GET", url |-> args.full_url.url, body |-> None]
        /\ pc = "returned" =>
             /\ Len(requests) = 1
             /\ result = [some |-> TRUE, bundle |-> fetched[1]]

C6_Witness ==
    /\ pc = "returned"
    /\ args.full_url.kind = "url"
    /\ args.use_post
    /\ PagesArg > 1
    /\ fetched[1].link.some

\* C7: with login-exchange, no login request precedes the first get(), no query
\* request is issued before a login has succeeded, and no login request is issued
\* once one has succeeded; with any other auth method no login request is issued.
C7_LoginOnceBeforeQueries ==
    /\ [](calls = 0 => logins = 0)
    /\ [](cfg.auth_method # "login" => logins = 0)
    /\ []((cfg.auth_method = "login" /\ requests # <<>>) => logins_ok >= 1)
    /\ [][logins_ok >= 1 => (logins' = logins /\ logins_ok' = logins_ok)]_vars

C7_Witness ==
    /\ cfg.auth_method = "login"
    /\ calls = 2
    /\ pc = "returned"
    /\ logins = 1
    /\ logins_ok = 1

\* login-exchange is selected and the login URL, the username or the password is missing
LoginMisconfigured ==
    cfg.auth_method = "login" /\ ~(cfg.login_url /\ cfg.username /\ cfg.password)

LinkTarget(link) ==
    IF link.origin # "" THEN link
    ELSE [origin |-> BaseUrl, path |-> link.path, query |-> link.query]

\* C9: the k-th follow-up GET goes to the next link of the page fetched just before
\* it, an absolute link unchanged and a relative one under the base URL; after each
\* merge the bundle's next link is that of the page just merged.
C9_FollowsFrontier ==
    ~FullUrlGiven(args) =>
        /\ \A k \in 2..Len(requests) :
             /\ k - 1 <= Len(fetched)
             /\ fetched[k - 1].link.some
             /\ requests[k].url = LinkTarget(fetched[k - 1].link.v)
        /\ fetched # <<>> => fqc_bundle.link = fetched[Len(fetched)].link

C9_Witness ==
    /\ Len(requests) = 3
    /\ fetched[1].link.v = RelLink
    /\ fetched[2].link.v = AbsLink
    /\ requests[3].url = AbsLink
    /\ requests[2].url.origin = BaseUrl

\* C10: every get() call ends (returns or raises) whatever next links the server
\* serves: the page budget is positive while a follow-up is awaited and strictly
\* smaller at each further follow-up, and a call with pages = N issues at most
\* max(1, N) query requests.
C10_CallTerminates ==
    /\ [](Len(requests) <= Max(1, PagesArg))
    /\ [](pc = "wait_next" => remaining_pages > 0)
    /\ [][(pc = "wait_next" /\ pc' = "wait_next") => remaining_pages' < remaining_pages]_vars
    /\ (InCall ~> ~InCall)

C10_Witness ==
    /\ pc = "returned"
    /\ PagesArg = 2
    /\ Len(requests) = 2
    /\ result.bundle.link.some

====
